---- MODULE Spec2Model ----
(***************************************************************************)
(* Meshwork tutorial (Meshwork_Examples.ipynb): a Meshwork object links an *)
(* anchor mesh, a masked view of it, a registry of annotations and a       *)
(* skeleton.  The notebook's cells are the operations; what the library    *)
(* does inside each call is taken from the notebook's own prose where it   *)
(* says so and from the design description otherwise.                      *)
(***************************************************************************)
EXTENDS Integers, Sequences, FiniteSets, TLC

VARIABLES nrn, nrn2, file, pc, op, status, ret

vars == <<nrn, nrn2, file, pc, op, status, ret>>

(***************************************************************************)
(* Bounds                                                                  *)
(***************************************************************************)
\* number of vertices of the base mesh
NumVerts == 4

(***************************************************************************)
(* Small helpers                                                           *)
(***************************************************************************)
Range(s) == {s[i] : i \in DOMAIN s}

Abs(x) == IF x < 0 THEN -x ELSE x

SetMin(S) == CHOOSE x \in S : \A y \in S : x <= y

SetMax(S) == CHOOSE x \in S : \A y \in S : x >= y

\* ascending sequence of the elements of a finite set of integers
RECURSIVE SortedSeq(_)
SortedSeq(S) == IF S = {} THEN <<>>
                ELSE <<SetMin(S)>> \o SortedSeq(S \ {SetMin(S)})

\* a function on 1..n as an explicit tuple (evaluated once, not per lookup)
Tuple(f) == f \o <<>>

IdentitySeq(n) == [i \in 1..n |-> i]

AllTrue(n) == [i \in 1..n |-> TRUE]

BoolMasks(n) == [1..n -> BOOLEAN]

\* the indices a boolean mask selects, in ascending order (numpy boolean indexing)
KeptIndices(mask) == SortedSeq({i \in DOMAIN mask : mask[i]})

\* position of x in a sequence without repeats
IndexOf(s, x) == CHOOSE j \in DOMAIN s : s[j] = x

(***************************************************************************)
(* MeshGraph: vertices (positions on a line, in mesh units), undirected    *)
(* edges between local vertex indices, and the translation of the local    *)
(* indices back to the indexing of the mesh it was masked from.            *)
(***************************************************************************)
\* position of base-mesh vertex i; index order is not position order
Pos(i) == IF i % 2 = 1 THEN 2 * (i + 1) ELSE 2 * (i - 1)

NumVertices(m) == Len(m.vertices)

MakeMesh(vertices, edges) ==
  [vertices |-> vertices, edges |-> edges, unmasked |-> IdentitySeq(Len(vertices))]

\* as MeshApplyMask, with the scan of the mask stopping one short of its end
MeshApplyMaskOffByOne(m, mask) ==
  LET kept == SortedSeq({i \in DOMAIN mask : i < Len(mask) /\ mask[i]})
  IN  [vertices |-> [j \in 1..Len(kept) |-> m.vertices[kept[j]]],
       edges    |-> {{IndexOf(kept, a) : a \in e} :
                       e \in {f \in m.edges : f \subseteq Range(kept)}},
       unmasked |-> [j \in 1..Len(kept) |-> m.unmasked[kept[j]]]]

\* mesh.apply_mask(mask): the induced subgraph on the selected vertices,
\* renumbered 1..k, remembering where each came from
MeshApplyMask(m, mask) ==
  LET kept == KeptIndices(mask)
  IN  [vertices |-> [j \in 1..Len(kept) |-> m.vertices[kept[j]]],
       edges    |-> {{IndexOf(kept, a) : a \in e} :
                       e \in {f \in m.edges : \A a \in f : mask[a]}},
       unmasked |-> [j \in 1..Len(kept) |-> m.unmasked[kept[j]]]]

Neighbors(m, v) == {u \in 1..NumVertices(m) : {u, v} \in m.edges}

\* vertices connected to the set S
RECURSIVE Reach(_, _)
Reach(m, S) ==
  LET T == S \cup UNION {Neighbors(m, v) : v \in S}
  IN  IF T = S THEN S ELSE Reach(m, T)

ConnectedComponents(m) == {Reach(m, {v}) : v \in 1..NumVertices(m)}

IsConnected(m) == Cardinality(ConnectedComponents(m)) <= 1

\* mesh_filters.filter_largest_component: mask of the largest component,
\* the one holding the lowest vertex index among equally large ones
FilterLargestComponent(m) ==
  LET comps == ConnectedComponents(m)
      big   == {c \in comps : \A d \in comps : Cardinality(d) <= Cardinality(c)}
      best  == CHOOSE c \in big : \A d \in big : SetMin(c) <= SetMin(d)
  IN  [i \in 1..NumVertices(m) |-> i \in best]

\* index of the vertex of m nearest to point, lowest index on ties; 0 when
\* the mesh has no vertex
NearestVertex(m, point) ==
  IF NumVertices(m) = 0 THEN 0
  ELSE LET d(i) == Abs(m.vertices[i] - point)
       IN  SetMin({i \in 1..NumVertices(m) :
                     \A j \in 1..NumVertices(m) : d(i) <= d(j)})

\* the edges of a mesh named by the indices of the mesh it was masked from
EdgesUnmasked(m) == {{m.unmasked[a] : a \in e} : e \in m.edges}

(***************************************************************************)
(* Annotation data: the dataframes the notebook reads, each with one point *)
(* column.  A row is [id, pt]; anchoring adds the column mesh_index.       *)
(***************************************************************************)
\* mesh index of a row that no vertex could be found for
Unmapped == -1

syn_in_df ==
  [point_name |-> "ctr_pt_position",
   rows |-> << [id |-> 1, pt |-> 1], [id |-> 2, pt |-> 5], [id |-> 3, pt |-> 3] >>]

soma_df ==
  [point_name |-> "pt_position", rows |-> << [id |-> 1, pt |-> 9] >>]

\* the dataframe the notebook registers under each name
FrameOf(name) == IF name = "syn_in" THEN syn_in_df ELSE soma_df

PointColumns == {"ctr_pt_position", "pt_position"}

Names == {"syn_in", "soma_pt"}

NoAnno == [anchored |-> FALSE, point_column |-> "", registered |-> FALSE,
           data_original |-> <<>>, data |-> <<>>]

\* each row gets associated with the closest vertex of the mesh it is
\* anchored against, named by its index in the anchor mesh
AnchorRows(mesh, rows) ==
  [k \in DOMAIN rows |->
     [id |-> rows[k].id, pt |-> rows[k].pt,
      mesh_index |-> IF NumVertices(mesh) = 0 THEN Unmapped
                     ELSE mesh.unmasked[NearestVertex(mesh, rows[k].pt)]]]

\* the rows of an annotation left by a mask over the anchor mesh's vertices:
\* anchored rows whose vertex is kept; unanchored annotations are not filtered
FilterData(a, mesh_mask) ==
  LET Kept(r) == r.mesh_index # Unmapped /\ mesh_mask[r.mesh_index]
  IN  IF a.anchored THEN SelectSeq(a.data_original, Kept) ELSE a.data_original

(***************************************************************************)
(* Meshwork object                                                         *)
(***************************************************************************)
NoSkeleton == [built |-> FALSE]

\* meshwork.Meshwork(mesh_anchor): the anchor mesh becomes the object's own
\* reference mesh, the view is the whole of it, nothing is registered
Meshwork(mesh) ==
  LET a == MakeMesh(mesh.vertices, mesh.edges)
  IN  [anchor    |-> a,
       mesh      |-> a,
       mesh_mask |-> AllTrue(NumVertices(a)),
       anno      |-> [nm \in Names |-> NoAnno],
       skeleton  |-> NoSkeleton]

\* as AttachFailure, with the entry to be replaced already dropped when the
\* table turns out to lack the column
AttachFailureDropsEntry(obj, name) ==
  [obj |-> [obj EXCEPT !.anno[name] = NoAnno], status |-> "MissingColumnError"]

\* a failed attach: the error, and the object as it was
AttachFailure(obj, name) == [obj |-> obj, status |-> "MissingColumnError"]

\* a mask that does not fit the current view: the error, and the object as
\* it was
MaskFailure(obj) == [obj |-> obj, status |-> "IndexOutOfMaskError"]

\* as AttachMesh, anchoring against what the mask in force leaves in view
AttachMeshCurrentView(obj) == obj.mesh

\* the mesh the rows of an anchored table are anchored against: the object's
\* anchor mesh, whatever the current view is
AttachMesh(obj) == obj.anchor

\* nrn.add_annotations(name, df, point_column=..., anchored=...)
add_annotations(obj, name, df, point_column, anchored) ==
  IF anchored /\ point_column # df.point_name
  THEN AttachFailure(obj, name)
  ELSE LET rows == IF anchored THEN AnchorRows(AttachMesh(obj), df.rows) ELSE df.rows
           a0   == [anchored |-> anchored, point_column |-> point_column,
                    registered |-> TRUE, data_original |-> rows, data |-> rows]
           a    == [a0 EXCEPT !.data = FilterData(a0, obj.mesh_mask)]
       IN  [obj |-> [obj EXCEPT !.anno[name] = a], status |-> "ok"]

\* as apply_mask, masking the mesh and leaving the annotations as they were
apply_mask_mesh_only(obj, mask) ==
  IF Len(mask) # NumVertices(obj.mesh)
  THEN MaskFailure(obj)
  ELSE LET m  == MeshApplyMask(obj.mesh, mask)
           mm == [i \in 1..NumVertices(obj.anchor) |-> i \in Range(m.unmasked)]
       IN  [obj |-> [obj EXCEPT !.mesh = m, !.mesh_mask = mm], status |-> "ok"]

\* as apply_mask, with the mask laid over the anchor mesh: the vertices the
\* view had lost are selected again
apply_mask_over_anchor(obj, mask) ==
  IF Len(mask) # NumVertices(obj.mesh)
  THEN MaskFailure(obj)
  ELSE LET full == [i \in 1..NumVertices(obj.anchor) |->
                      IF i \in Range(obj.mesh.unmasked)
                      THEN mask[IndexOf(obj.mesh.unmasked, i)]
                      ELSE TRUE]
           m    == MeshApplyMask(obj.anchor, full)
           mm   == [i \in 1..NumVertices(obj.anchor) |-> i \in Range(m.unmasked)]
       IN  [obj |-> [obj EXCEPT !.mesh = m,
                                !.mesh_mask = mm,
                                !.anno = [nm \in Names |->
                                            [obj.anno[nm] EXCEPT
                                               !.data = FilterData(obj.anno[nm], mm)]]],
            status |-> "ok"]

\* nrn.apply_mask(mask): mask is boolean over the vertices of the current view
apply_mask(obj, mask) ==
  IF Len(mask) # NumVertices(obj.mesh)
  THEN MaskFailure(obj)
  ELSE LET m  == MeshApplyMask(obj.mesh, mask)
           mm == [i \in 1..NumVertices(obj.anchor) |-> i \in Range(m.unmasked)]
       IN  [obj |-> [obj EXCEPT !.mesh = m,
                                !.mesh_mask = mm,
                                !.anno = [nm \in Names |->
                                            [obj.anno[nm] EXCEPT
                                               !.data = FilterData(obj.anno[nm], mm)]]],
            status |-> "ok"]

\* as reset_mask, restoring the mesh and leaving the annotations filtered
reset_mask_mesh_only(obj) ==
  [obj EXCEPT !.mesh = obj.anchor,
              !.mesh_mask = AllTrue(NumVertices(obj.anchor))]

\* nrn.reset_mask(): back to the anchor mesh
reset_mask(obj) ==
  [obj EXCEPT !.mesh = obj.anchor,
              !.mesh_mask = AllTrue(NumVertices(obj.anchor)),
              !.anno = [nm \in Names |->
                          [obj.anno[nm] EXCEPT !.data = obj.anno[nm].data_original]]]

\* what a cell leaves on the screen when it shows nothing
NoRet == [kind |-> "none"]

\* as filter_query, masking the object itself on the way
filter_query_in_place(obj, name, mask) ==
  IF ~obj.anno[name].registered
  THEN [obj |-> obj, status |-> "UnknownAnnotationError", ret |-> NoRet]
  ELSE IF Len(mask) # NumVertices(obj.mesh)
  THEN [obj |-> obj, status |-> "IndexOutOfMaskError", ret |-> NoRet]
  ELSE LET masked == apply_mask(obj, mask).obj
       IN  [obj |-> masked, status |-> "ok",
            ret |-> [kind |-> "table", name |-> name,
                     anchored |-> obj.anno[name].anchored,
                     data |-> masked.anno[name].data]]

\* nrn.anno[name].filter_query(mask): the rows within a mask over the current
\* view's vertices, as a new table; the object is handed back as it was
filter_query(obj, name, mask) ==
  IF ~obj.anno[name].registered
  THEN [obj |-> obj, status |-> "UnknownAnnotationError", ret |-> NoRet]
  ELSE IF Len(mask) # NumVertices(obj.mesh)
  THEN [obj |-> obj, status |-> "IndexOutOfMaskError", ret |-> NoRet]
  ELSE LET m  == MeshApplyMask(obj.mesh, mask)
           mm == [i \in 1..NumVertices(obj.anchor) |-> i \in Range(m.unmasked)]
       IN  [obj |-> obj, status |-> "ok",
            ret |-> [kind |-> "table", name |-> name,
                     anchored |-> obj.anno[name].anchored,
                     data |-> FilterData(obj.anno[name], mm)]]

(***************************************************************************)
(* Skeletonization of the anchor mesh (TEASAR-like) and the mesh/skeleton  *)
(* index maps it leaves behind.                                            *)
(***************************************************************************)
\* vertices within this distance of the soma point collapse into the root
\* (11000 nm in the notebook; here in the units of Pos)
soma_thresh_distance == 2

\* mesh vertices within this geodesic distance of a traced path are claimed
\* by it
invalidation_d == 2

EdgeWeight(m, u, v) == Abs(m.vertices[u] - m.vertices[v])

RECURSIVE SumWeights(_, _)
SumWeights(m, E) ==
  IF E = {} THEN 0
  ELSE LET e == CHOOSE f \in E : TRUE
       IN  EdgeWeight(m, SetMin(e), SetMax(e)) + SumWeights(m, E \ {e})

\* longer than any path of the mesh: the distance of an unreachable vertex
Far(m) == 1 + SumWeights(m, m.edges)

RECURSIVE Relax(_, _, _)
Relax(m, d, k) ==
  IF k = 0 THEN d
  ELSE Relax(m,
             Tuple([v \in 1..NumVertices(m) |->
                SetMin({d[v]} \cup {d[u] + EdgeWeight(m, u, v) : u \in Neighbors(m, v)})]),
             k - 1)

\* geodesic distance of every vertex from the nearest vertex of S
GeodesicFrom(m, S) ==
  Relax(m, Tuple([v \in 1..NumVertices(m) |-> IF v \in S THEN 0 ELSE Far(m)]),
        NumVertices(m))

\* the neighbour a shortest path to v comes from, lowest index on ties
Pred(m, d, v) ==
  SetMin({u \in Neighbors(m, v) : d[u] + EdgeWeight(m, u, v) = d[v]})

\* the shortest path from t back to the first vertex of stop, t first and
\* the stop vertex last
RECURSIVE TracePath(_, _, _, _)
TracePath(m, d, stop, t) ==
  IF t \in stop THEN <<t>>
  ELSE <<t>> \o TracePath(m, d, stop, Pred(m, d, t))

\* geodesic distance between every two vertices
AllPairs(m) == Tuple([p \in 1..NumVertices(m) |-> GeodesicFrom(m, {p})])

\* as AttachIndex, without the collapse of the soma vertices into the root
AttachIndexNoCollapse(sk, x) ==
  IF x \in Range(sk.vertices) THEN IndexOf(sk.vertices, x) ELSE 0

\* the skeleton index the first vertex of a new branch hangs from: the
\* skeleton vertex the path ran into, or the root when it ran into the
\* vertices merged into the soma
AttachIndex(sk, x) ==
  IF x \in Range(sk.vertices) THEN IndexOf(sk.vertices, x) ELSE 1

\* the skeleton index that claims mesh vertex v when a path is added: a path
\* vertex claims itself; an unclaimed vertex within invalidation_d of the
\* path goes to the nearest path vertex; anything else keeps its claim
ClaimAfterPath(g, sk, newIdx, v) ==
  LET P     == DOMAIN newIdx
      near  == {p \in P : g[p][v] <= invalidation_d}
      best  == {p \in near : \A q \in near : g[p][v] <= g[q][v]}
  IN  IF v \in P THEN newIdx[v]
      ELSE IF sk.claim[v] = 0 /\ near # {}
      THEN SetMin({newIdx[p] : p \in best})
      ELSE sk.claim[v]

\* the mesh region of every skeleton vertex once a path is added: the new
\* vertices get what they claimed, the old ones give up the mesh vertices
\* that became skeleton vertices themselves
RegionsAfterPath(sk, newIdx, claim, total) ==
  Tuple([s \in 1..total |->
           IF s <= Len(sk.vertices)
           THEN sk.regions[s] \ DOMAIN newIdx
           ELSE {v \in DOMAIN claim : claim[v] = s}])

\* one TEASAR round: the farthest unclaimed vertex, its path back to the
\* skeleton, the new branch and what it claims
AddBranch(m, g, d, merged, sk) ==
  LET U      == {v \in 1..NumVertices(m) : sk.claim[v] = 0}
      t      == SetMin({v \in U : \A w \in U : d[w] <= d[v]})
      full   == TracePath(m, d, Range(sk.vertices) \cup merged, t)
      k      == Len(full) - 1
      base   == Len(sk.vertices)
      attach == AttachIndex(sk, full[k + 1])
      \* path vertices enter the skeleton root side first
      newIdx == [p \in {full[j] : j \in 1..k} |-> base + (k - IndexOf(full, p) + 1)]
      claim  == Tuple([v \in 1..NumVertices(m) |-> ClaimAfterPath(g, sk, newIdx, v)])
  IN  [vertices |-> sk.vertices \o [i \in 1..k |-> full[k - i + 1]],
       parent   |-> sk.parent \o [i \in 1..k |-> IF i = 1 THEN attach ELSE base + i - 1],
       claim    |-> claim,
       regions  |-> RegionsAfterPath(sk, newIdx, claim, base + k)]

RECURSIVE Teasar(_, _, _, _, _)
Teasar(m, g, d, merged, sk) ==
  IF \A v \in 1..NumVertices(m) : sk.claim[v] # 0 THEN sk
  ELSE Teasar(m, g, d, merged, AddBranch(m, g, d, merged, sk))

\* skeletonize.skeletonize_mesh(mesh, soma_pt, soma_thresh_distance)
SkeletonizeMesh(m, soma_pt) ==
  LET root   == NearestVertex(m, soma_pt)
      merged == {root} \cup {v \in 1..NumVertices(m) :
                              Abs(m.vertices[v] - soma_pt) <= soma_thresh_distance}
      d      == GeodesicFrom(m, merged)
      sk0    == [vertices |-> <<root>>, parent |-> <<0>>,
                 claim    |-> Tuple([v \in 1..NumVertices(m) |->
                                      IF v \in merged THEN 1 ELSE 0]),
                 regions  |-> <<merged>>]
      sk     == Teasar(m, AllPairs(m), d, merged, sk0)
  IN  [built        |-> TRUE,
       vertices     |-> sk.vertices,
       parent       |-> sk.parent,
       mesh_to_skel |-> Tuple([v \in 1..NumVertices(m) |->
                           IF sk.claim[v] = 0 THEN Unmapped ELSE sk.claim[v]]),
       regions      |-> sk.regions]

\* nrn.skeletonize_mesh(soma_pt=...): the skeleton is built from the anchor
\* mesh whatever the current view is; a mesh in several pieces has none
skeletonize_mesh(obj, soma_pt) ==
  IF NumVertices(obj.anchor) = 0
  THEN [obj |-> obj, status |-> "EmptyGraphError"]
  ELSE IF ~IsConnected(obj.anchor)
  THEN [obj |-> obj, status |-> "ForestNotTreeError"]
  ELSE [obj |-> [obj EXCEPT !.skeleton = SkeletonizeMesh(obj.anchor, soma_pt)],
        status |-> "ok"]

\* local index in the current view of an anchor-mesh vertex, Unmapped if masked out
ToViewIndex(obj, v) ==
  IF v \in Range(obj.mesh.unmasked) THEN IndexOf(obj.mesh.unmasked, v) ELSE Unmapped

\* MeshIndex.to_skel_index_padded: the skeleton index of a vertex of the
\* current view, -1 if no map is available
to_skel_index_padded(obj, i) ==
  IF ~obj.skeleton.built THEN Unmapped
  ELSE obj.skeleton.mesh_to_skel[obj.mesh.unmasked[i]]

\* as to_mesh_region, reading the region's anchor-mesh indices as indices of
\* the current view
to_mesh_region_untranslated(obj, s) ==
  {i \in 1..NumVertices(obj.mesh) : i \in obj.skeleton.regions[s]}

\* SkeletonIndex.to_mesh_region: the vertices of the current view that map
\* to skeleton vertex s
to_mesh_region(obj, s) ==
  {i \in 1..NumVertices(obj.mesh) : obj.mesh.unmasked[i] \in obj.skeleton.regions[s]}

Children(sk, s) == {c \in 1..Len(sk.vertices) : sk.parent[c] = s}

RECURSIVE KthAncestor(_, _, _)
KthAncestor(sk, s, k) ==
  IF k = 0 \/ s = 0 THEN s ELSE KthAncestor(sk, sk.parent[s], k - 1)

\* the skeleton vertices above s (its parent, its parent's parent, ...)
Ancestors(sk, s) == {KthAncestor(sk, s, k) : k \in 1..Len(sk.vertices)} \ {0}

\* length of the skeleton edge from s up to its parent: the distance between
\* the two skeleton vertices; the root has no such edge
SkelEdgeLength(obj, s) ==
  LET sk == obj.skeleton
  IN  IF sk.parent[s] = 0 THEN 0
      ELSE Abs(obj.anchor.vertices[sk.vertices[s]]
               - obj.anchor.vertices[sk.vertices[sk.parent[s]]])

\* length of the tree path from skeleton vertex s up to the root
RECURSIVE SkelDistanceToRoot(_, _)
SkelDistanceToRoot(obj, s) ==
  IF obj.skeleton.parent[s] = 0 THEN 0
  ELSE SkelEdgeLength(obj, s) + SkelDistanceToRoot(obj, obj.skeleton.parent[s])

\* the lowest skeleton vertex that is s or above s, and t or above t
LowestCommonAncestor(sk, s, t) ==
  LET common == (Ancestors(sk, s) \cup {s}) \cap (Ancestors(sk, t) \cup {t})
  IN  CHOOSE c \in common : common \subseteq (Ancestors(sk, c) \cup {c})

\* as SkelDistance, counting only the climb from s to the common ancestor
SkelDistanceClimbOnly(obj, s, t) ==
  LET c == LowestCommonAncestor(obj.skeleton, s, t)
  IN  SkelDistanceToRoot(obj, s) - SkelDistanceToRoot(obj, c)

\* length of the tree path between skeleton vertices s and t: up from s to
\* their lowest common ancestor and down to t
SkelDistance(obj, s, t) ==
  LET c == LowestCommonAncestor(obj.skeleton, s, t)
  IN  (SkelDistanceToRoot(obj, s) - SkelDistanceToRoot(obj, c))
      + (SkelDistanceToRoot(obj, t) - SkelDistanceToRoot(obj, c))

\* nrn.distance_between(a_inds, b_inds): for mesh indices of the current
\* view, the matrix of distances along the skeleton, one row per index of
\* a_inds and one column per index of b_inds
distance_between(obj, a_inds, b_inds) ==
  Tuple([i \in DOMAIN a_inds |->
    Tuple([j \in DOMAIN b_inds |->
      SkelDistance(obj, to_skel_index_padded(obj, a_inds[i]),
                        to_skel_index_padded(obj, b_inds[j]))])])

\* as Downstream, leaving out the vertex the walk starts from
DownstreamBelow(sk, s) ==
  {t \in 1..Len(sk.vertices) : s \in Ancestors(sk, t)}

\* the skeleton vertices at and below s: those that reach s going rootward
Downstream(sk, s) ==
  {s} \cup {t \in 1..Len(sk.vertices) : s \in Ancestors(sk, t)}

\* nrn.downstream_of(i): the mesh indices of the current view in the regions
\* of the skeleton vertices downstream of the one mesh index i maps to; an
\* index that is not in the view is refused
downstream_of(obj, i) ==
  IF i \notin 1..NumVertices(obj.mesh)
  THEN [status |-> "IndexOutOfMaskError", inds |-> <<>>]
  ELSE LET down == Downstream(obj.skeleton, to_skel_index_padded(obj, i))
       IN  [status |-> "ok",
            inds   |-> SortedSeq(UNION {to_mesh_region(obj, t) : t \in down})]

RECURSIVE SumEdgeLengths(_, _)
SumEdgeLengths(obj, S) ==
  IF S = {} THEN 0
  ELSE LET s == SetMin(S)
       IN  SkelEdgeLength(obj, s) + SumEdgeLengths(obj, S \ {s})

\* nrn.path_length(inds): the mesh indices are turned into skeleton indices
\* and the lengths of the skeleton edges between them are added up
path_length(obj, inds) ==
  LET S == {to_skel_index_padded(obj, inds[k]) : k \in DOMAIN inds}
  IN  SumEdgeLengths(obj, {s \in S : obj.skeleton.parent[s] \in S})

\* nrn.branch_points: mesh indices, in the current view, of the skeleton
\* vertices with more than one child, in skeleton order
branch_points(obj) ==
  LET sk == obj.skeleton
      bp == SortedSeq({s \in 1..Len(sk.vertices) :
                         /\ Cardinality(Children(sk, s)) > 1
                         /\ sk.vertices[s] \in Range(obj.mesh.unmasked)})
  IN  [j \in 1..Len(bp) |-> ToViewIndex(obj, sk.vertices[bp[j]])]

\* nrn.root: the mesh index of the skeleton root
root(obj) == ToViewIndex(obj, obj.skeleton.vertices[1])

(***************************************************************************)
(* Saving and loading: the file holds the anchor mesh, every annotation in *)
(* full, the skeleton and the mask; loading rebuilds the object and        *)
(* applies the same mask.                                                  *)
(***************************************************************************)
\* the rows of an annotation as the caller supplied them
SourceRows(a) == [k \in DOMAIN a.data_original |->
                    [id |-> a.data_original[k].id, pt |-> a.data_original[k].pt]]

\* as save_meshwork, writing the rows each annotation currently shows
save_meshwork_visible_rows(obj) ==
  [written   |-> TRUE,
   vertices  |-> obj.anchor.vertices,
   edges     |-> obj.anchor.edges,
   anno      |-> [nm \in Names |->
                    [registered   |-> obj.anno[nm].registered,
                     anchored     |-> obj.anno[nm].anchored,
                     point_column |-> obj.anno[nm].point_column,
                     rows         |-> [k \in DOMAIN obj.anno[nm].data |->
                                         [id |-> obj.anno[nm].data[k].id,
                                          pt |-> obj.anno[nm].data[k].pt]]]],
   skeleton  |-> obj.skeleton,
   mesh_mask |-> obj.mesh_mask]

\* nrn.save_meshwork(filename, overwrite=True)
save_meshwork(obj) ==
  [written   |-> TRUE,
   vertices  |-> obj.anchor.vertices,
   edges     |-> obj.anchor.edges,
   anno      |-> [nm \in Names |->
                    [registered   |-> obj.anno[nm].registered,
                     anchored     |-> obj.anno[nm].anchored,
                     point_column |-> obj.anno[nm].point_column,
                     rows         |-> SourceRows(obj.anno[nm])]],
   skeleton  |-> obj.skeleton,
   mesh_mask |-> obj.mesh_mask]

RECURSIVE LoadAnnotations(_, _, _)
LoadAnnotations(obj, f, todo) ==
  IF todo = {} THEN obj
  ELSE LET nm == CHOOSE x \in todo : TRUE
           a  == f.anno[nm]
           o  == IF a.registered
                 THEN add_annotations(obj, nm,
                                      [point_name |-> a.point_column, rows |-> a.rows],
                                      a.point_column, a.anchored).obj
                 ELSE obj
       IN  LoadAnnotations(o, f, todo \ {nm})

\* as load_meshwork, leaving the loaded object unmasked
load_meshwork_unmasked(f) ==
  LET o1 == Meshwork(MakeMesh(f.vertices, f.edges))
      o2 == LoadAnnotations(o1, f, Names)
  IN  [o2 EXCEPT !.skeleton = f.skeleton]

\* as load_meshwork, without the skeleton
load_meshwork_no_skeleton(f) ==
  LET o1 == Meshwork(MakeMesh(f.vertices, f.edges))
      o2 == LoadAnnotations(o1, f, Names)
  IN  apply_mask(o2, f.mesh_mask).obj

\* meshwork.load_meshwork(filename)
load_meshwork(f) ==
  LET o1 == Meshwork(MakeMesh(f.vertices, f.edges))
      o2 == LoadAnnotations(o1, f, Names)
      o3 == [o2 EXCEPT !.skeleton = f.skeleton]
  IN  apply_mask(o3, f.mesh_mask).obj

(***************************************************************************)
(* The notebook as a state machine                                         *)
(***************************************************************************)
NoObject == [loaded |-> FALSE]

NoFile == [written |-> FALSE]

\* edge sets of the base meshes: the chain 1-2-...-n, with or without its
\* last link (without it the last vertex is a separate piece that the
\* largest-component filter drops), and with or without the chord that
\* closes a triangle at the end of the chain (a star once the last link is gone)
ChainEdges == {{i, i + 1} : i \in 1..(NumVerts - 1)}

ChordEdges == {{i, i + 2} : i \in 1..(NumVerts - 2)}

LastLink == {NumVerts - 1, NumVerts}

LastChord == {NumVerts - 2, NumVerts}

BaseEdgeSets ==
  {(ChainEdges \ gap) \cup chord : gap \in {{}, {LastLink}}, chord \in {{}, {LastChord}}}

BaseMesh(edges) == MakeMesh([i \in 1..NumVerts |-> Pos(i)], edges)

\* mesh_base -> in_comp -> mesh_anchor -> nrn
BuildMeshwork(mesh_base) ==
  LET in_comp     == FilterLargestComponent(mesh_base)
      mesh_anchor == MeshApplyMask(mesh_base, in_comp)
  IN  Meshwork(mesh_anchor)

Init ==
  /\ \E edges \in BaseEdgeSets : nrn = BuildMeshwork(BaseMesh(edges))
  /\ nrn2 = NoObject
  /\ file = NoFile
  /\ pc = "live"
  /\ op = "Meshwork"
  /\ status = "ok"
  /\ ret = NoRet

AddAnnotations(name, df, point_column, anchored) ==
  /\ pc = "live"
  /\ op' = "add_annotations"
  /\ LET r == add_annotations(nrn, name, df, point_column, anchored)
     IN  /\ nrn' = r.obj
         /\ status' = r.status
  /\ ret' = NoRet
  /\ UNCHANGED <<nrn2, file, pc>>

ApplyMask(mask) ==
  /\ pc = "live"
  /\ op' = "apply_mask"
  /\ LET r == apply_mask(nrn, mask)
     IN  /\ nrn' = r.obj
         /\ status' = r.status
  /\ ret' = NoRet
  /\ UNCHANGED <<nrn2, file, pc>>

\* nrn.reset_mask(); where syn_in is registered the cell prints how many
\* input synapses it shows before and after
ResetMask ==
  /\ pc = "live"
  /\ op' = "reset_mask"
  /\ nrn' = reset_mask(nrn)
  /\ status' = "ok"
  /\ ret' = IF nrn.anno["syn_in"].registered
            THEN [kind |-> "print",
                  before |-> Len(nrn.anno["syn_in"].data),
                  after  |-> Len(nrn'.anno["syn_in"].data)]
            ELSE NoRet
  /\ UNCHANGED <<nrn2, file, pc>>

FilterQuery(name, mask) ==
  /\ pc = "live"
  /\ op' = "filter_query"
  /\ LET r == filter_query(nrn, name, mask)
     IN  /\ nrn' = r.obj
         /\ status' = r.status
         /\ ret' = r.ret
  /\ UNCHANGED <<nrn2, file, pc>>

\* nrn.skeletonize_mesh(soma_pt=nrn.anno.soma_pt.points[0], ...): the soma
\* point is the first visible row of the soma_pt annotation
Skeletonize ==
  /\ pc = "live"
  /\ nrn.anno["soma_pt"].registered
  /\ Len(nrn.anno["soma_pt"].data) > 0
  /\ op' = "skeletonize_mesh"
  /\ LET r == skeletonize_mesh(nrn, nrn.anno["soma_pt"].data[1].pt)
     IN  /\ nrn' = r.obj
         /\ status' = r.status
  /\ ret' = NoRet
  /\ UNCHANGED <<nrn2, file, pc>>

\* nrn.skeletonize_mesh(soma_pt=pt, ...) with a soma point given directly
SkeletonizeAt(soma_pt) ==
  /\ pc = "live"
  /\ op' = "skeletonize_mesh"
  /\ LET r == skeletonize_mesh(nrn, soma_pt)
     IN  /\ nrn' = r.obj
         /\ status' = r.status
  /\ ret' = NoRet
  /\ UNCHANGED <<nrn2, file, pc>>

SaveMeshwork ==
  /\ pc = "live"
  /\ op' = "save_meshwork"
  /\ file' = save_meshwork(nrn)
  /\ pc' = "saved"
  /\ status' = "ok"
  /\ ret' = NoRet
  /\ UNCHANGED <<nrn, nrn2>>

\* nrn2 = meshwork.load_meshwork(filename), then the cell shows
\* np.all(nrn.branch_points == nrn2.branch_points), which needs a skeleton
\* on both sides
LoadMeshwork ==
  /\ pc = "saved"
  /\ op' = "load_meshwork"
  /\ nrn2' = load_meshwork(file)
  /\ pc' = "loaded"
  /\ IF nrn.skeleton.built /\ nrn2'.skeleton.built
     THEN /\ status' = "ok"
          /\ ret' = [kind |-> "bool",
                     value |-> branch_points(nrn) = branch_points(nrn2')]
     ELSE /\ status' = "NoSkeletonError"
          /\ ret' = NoRet
  /\ UNCHANGED <<nrn, file>>

\* the notebook moves on to its next section: nrn2 and the file are not
\* used again
Continue ==
  /\ pc = "loaded"
  /\ op' = "continue"
  /\ nrn2' = NoObject
  /\ file' = NoFile
  /\ pc' = "live"
  /\ status' = "ok"
  /\ ret' = NoRet
  /\ UNCHANGED nrn

\* the masks a caller can pass: every boolean array over the current view,
\* and arrays of every other length up to the anchor mesh's
MaskInputs ==
  BoolMasks(NumVertices(nrn.mesh)) \cup {AllTrue(k) : k \in 0..NumVertices(nrn.anchor)}

\* add_annotations calls: each name with its dataframe; anchored with either
\* column name, unanchored with the dataframe's own
AttachInputs ==
  {inp \in Names \X PointColumns \X BOOLEAN :
     inp[3] \/ inp[2] = FrameOf(inp[1]).point_name}

Next ==
  \/ \E inp \in AttachInputs :
       AddAnnotations(inp[1], FrameOf(inp[1]), inp[2], inp[3])
  \/ \E mask \in MaskInputs : ApplyMask(mask)
  \/ ResetMask
  \/ \E name \in Names, mask \in MaskInputs : FilterQuery(name, mask)
  \/ Skeletonize
  \/ SaveMeshwork
  \/ LoadMeshwork
  \/ Continue

Spec == Init /\ [][Next]_vars

(***************************************************************************)
(* Skeletonization on its own: every base mesh over the chain and chord    *)
(* links, every soma point beside a vertex, under masking and resetting.   *)
(* As in the notebook, the object is skeletonized while its view is the    *)
(* whole anchor mesh (the skeleton is built from the anchor mesh, so the   *)
(* view at the time of the call does not change the result).               *)
(***************************************************************************)
AllBaseEdgeSets == SUBSET (ChainEdges \cup ChordEdges)

SomaPoints == {Pos(i) + 1 : i \in 1..NumVerts}

InitSkel ==
  /\ \E edges \in AllBaseEdgeSets : nrn = BuildMeshwork(BaseMesh(edges))
  /\ nrn2 = NoObject
  /\ file = NoFile
  /\ pc = "live"
  /\ op = "Meshwork"
  /\ status = "ok"
  /\ ret = NoRet

NextSkel ==
  \/ \E pt \in SomaPoints : nrn.mesh = nrn.anchor /\ SkeletonizeAt(pt)
  \/ \E mask \in BoolMasks(NumVertices(nrn.mesh)) : ApplyMask(mask)
  \/ ResetMask

SpecSkel == InitSkel /\ [][NextSkel]_vars

(***************************************************************************)
(* Queries along the skeleton: the base meshes of Init, every soma point   *)
(* beside a vertex, under masking and resetting.                           *)
(***************************************************************************)
\* the mesh indices of the current view, in order
ViewIndices(obj) == IdentitySeq(NumVertices(obj.mesh))

\* index arrays a caller passes: the whole view, or a single mesh index
IndexArrays(obj) ==
  {ViewIndices(obj)} \cup {<<i>> : i \in 1..NumVertices(obj.mesh)}

\* d = nrn.distance_between(a_inds, b_inds), then the cell shows d
DistanceBetween(a_inds, b_inds) ==
  /\ pc = "live"
  /\ op' = "distance_between"
  /\ IF nrn.skeleton.built
     THEN /\ status' = "ok"
          /\ ret' = [kind |-> "matrix", a_inds |-> a_inds, b_inds |-> b_inds,
                     value |-> distance_between(nrn, a_inds, b_inds)]
     ELSE /\ status' = "NoSkeletonError"
          /\ ret' = NoRet
  /\ UNCHANGED <<nrn, nrn2, file, pc>>

\* nrn.path_length(): the cable length of everything in view
PathLength ==
  /\ pc = "live"
  /\ op' = "path_length"
  /\ IF nrn.skeleton.built
     THEN /\ status' = "ok"
          /\ ret' = [kind |-> "length",
                     value |-> path_length(nrn, ViewIndices(nrn))]
     ELSE /\ status' = "NoSkeletonError"
          /\ ret' = NoRet
  /\ UNCHANGED <<nrn, nrn2, file, pc>>

\* mesh_downstream = nrn.downstream_of(start), then
\* nrn.path_length(mesh_downstream)
PathLengthDownstream(start) ==
  /\ pc = "live"
  /\ op' = "path_length_downstream"
  /\ IF ~nrn.skeleton.built
     THEN /\ status' = "NoSkeletonError"
          /\ ret' = NoRet
     ELSE LET mesh_downstream == downstream_of(nrn, start)
          IN  /\ status' = mesh_downstream.status
              /\ ret' = IF mesh_downstream.status = "ok"
                        THEN [kind |-> "branch", start |-> start,
                              inds |-> mesh_downstream.inds,
                              value |-> path_length(nrn, mesh_downstream.inds)]
                        ELSE NoRet
  /\ UNCHANGED <<nrn, nrn2, file, pc>>

\* where downstream_of starts: any mesh index of the view, or nrn.root
StartInputs ==
  1..NumVertices(nrn.mesh) \cup (IF nrn.skeleton.built THEN {root(nrn)} ELSE {})

NextPaths ==
  \/ \E pt \in SomaPoints : nrn.mesh = nrn.anchor /\ SkeletonizeAt(pt)
  \/ \E mask \in BoolMasks(NumVertices(nrn.mesh)) : ApplyMask(mask)
  \/ ResetMask
  \/ \E a_inds \in IndexArrays(nrn), b_inds \in IndexArrays(nrn) :
       DistanceBetween(a_inds, b_inds)
  \/ PathLength
  \/ \E start \in StartInputs : PathLengthDownstream(start)

SpecPaths == Init /\ [][NextPaths]_vars

(***************************************************************************)
(* Properties                                                              *)
(***************************************************************************)
\* the vertices and edges an object shows, named by anchor-mesh index
VisibleVertices(obj) == Range(obj.mesh.unmasked)

VisibleEdges(obj) == EdgesUnmasked(obj.mesh)

IsUnmasked(obj) ==
  /\ VisibleVertices(obj) = 1..NumVertices(obj.anchor)
  /\ obj.mesh.vertices = obj.anchor.vertices
  /\ VisibleEdges(obj) = obj.anchor.edges

\* the rows of a table whose mesh index is in the set S of anchor-mesh indices
RowsWithin(rows, S) ==
  LET In(r) == r.mesh_index \in S
  IN  SelectSeq(rows, In)

\* the rows an annotation must show when the vertices in S are visible
RowsVisibleUnder(a, S) ==
  IF a.anchored THEN RowsWithin(a.data_original, S) ELSE a.data_original

\* C1: once reset_mask has run, whatever masks were applied before it, the
\* view is the whole anchor mesh (same vertices, same edges) and every
\* anchored annotation shows all the rows it was given
C1_ResetRestoresAnchorView ==
  op = "reset_mask" =>
    /\ IsUnmasked(nrn)
    /\ \A nm \in Names :
         (nrn.anno[nm].registered /\ nrn.anno[nm].anchored)
           => nrn.anno[nm].data = nrn.anno[nm].data_original

\* a reset that brought back rows of syn_in that a mask had hidden
C1_Witness ==
  /\ op = "reset_mask"
  /\ ret.kind = "print"
  /\ nrn.anno["syn_in"].anchored
  /\ ret.before < ret.after
  /\ nrn.anchor.edges # {}

\* the parts of two objects that are saved: anchor mesh and full tables
SameAnchorAndTables(a, b) ==
  /\ a.anchor.vertices = b.anchor.vertices
  /\ a.anchor.edges = b.anchor.edges
  /\ \A nm \in Names :
       /\ a.anno[nm].registered = b.anno[nm].registered
       /\ a.anno[nm].anchored = b.anno[nm].anchored
       /\ a.anno[nm].data_original = b.anno[nm].data_original

\* C2 as stated: after save and load the loaded object has the anchor mesh
\* and the full annotation tables of the original, and its mask is full
\* whatever mask was applied at the time of save
C2_LoadedMaskIsFull ==
  pc = "loaded" =>
    /\ SameAnchorAndTables(nrn2, nrn)
    /\ nrn2.mesh_mask = AllTrue(NumVertices(nrn2.anchor))
    /\ IsUnmasked(nrn2)

\* C2 amended: after save and load the loaded object has the anchor mesh and
\* the full annotation tables of the original, and its mask is the mask the
\* original had at the time of save
C2_LoadedMaskIsSavedMask ==
  pc = "loaded" =>
    /\ SameAnchorAndTables(nrn2, nrn)
    /\ nrn2.mesh_mask = nrn.mesh_mask

\* an object saved under a mask that hid rows of an anchored table, loaded
C2_Witness ==
  /\ pc = "loaded"
  /\ nrn.mesh_mask # AllTrue(NumVertices(nrn.anchor))
  /\ nrn.anno["syn_in"].registered
  /\ nrn.anno["syn_in"].anchored
  /\ Len(nrn.anno["syn_in"].data) < Len(nrn.anno["syn_in"].data_original)
  /\ nrn.anno["soma_pt"].registered

\* C3: the file holds the anchor mesh and every annotation in full, and the
\* loaded object has the same mask applied as the saved one: it shows the
\* same vertices, edges and annotation rows
C3_SavesAnchorAppliesSameMask ==
  /\ pc \in {"saved", "loaded"} =>
       /\ file.vertices = nrn.anchor.vertices
       /\ file.edges = nrn.anchor.edges
       /\ \A nm \in Names :
            /\ file.anno[nm].registered = nrn.anno[nm].registered
            /\ Len(file.anno[nm].rows) = Len(nrn.anno[nm].data_original)
            /\ \A k \in DOMAIN file.anno[nm].rows :
                 /\ file.anno[nm].rows[k].id = nrn.anno[nm].data_original[k].id
                 /\ file.anno[nm].rows[k].pt = nrn.anno[nm].data_original[k].pt
  /\ pc = "loaded" =>
       /\ VisibleVertices(nrn2) = VisibleVertices(nrn)
       /\ VisibleEdges(nrn2) = VisibleEdges(nrn)
       /\ nrn2.mesh = nrn.mesh
       /\ \A nm \in Names : nrn2.anno[nm].data = nrn.anno[nm].data

\* a loaded object showing part of the mesh and part of syn_in
C3_Witness ==
  /\ pc = "loaded"
  /\ NumVertices(nrn2.mesh) > 0
  /\ NumVertices(nrn2.mesh) < NumVertices(nrn2.anchor)
  /\ nrn2.anno["syn_in"].anchored
  /\ Len(nrn2.anno["syn_in"].data) > 0
  /\ Len(nrn2.anno["syn_in"].data) < Len(nrn2.anno["syn_in"].data_original)

\* C4: an object with a skeleton, saved unmasked: the loaded object has a
\* skeleton without being skeletonized, and its branch points are those of
\* the original, element for element (the cell shows True)
C4_LoadedBranchPoints ==
  (pc = "loaded" /\ nrn.skeleton.built /\ IsUnmasked(nrn)) =>
    /\ nrn2.skeleton.built
    /\ status = "ok"
    /\ ret.kind = "bool"
    /\ ret.value
    /\ branch_points(nrn2) = branch_points(nrn)

\* a skeletonized object with a branch point, saved unmasked and loaded
C4_Witness ==
  /\ pc = "loaded"
  /\ nrn.skeleton.built
  /\ IsUnmasked(nrn)
  /\ Len(branch_points(nrn)) > 0

\* C5: every registered annotation shows exactly the rows whose mesh index
\* is a visible vertex if it is anchored, and all its rows if it is not
VisibleRowsAsMasked(obj) ==
  \A nm \in Names :
    obj.anno[nm].registered =>
      obj.anno[nm].data = RowsVisibleUnder(obj.anno[nm], VisibleVertices(obj))

C5_VisibleRowsFollowMask ==
  /\ VisibleRowsAsMasked(nrn)
  /\ pc = "loaded" => VisibleRowsAsMasked(nrn2)

\* a mask has cut an anchored table down while an unanchored one kept its row
C5_Witness ==
  /\ op = "apply_mask"
  /\ status = "ok"
  /\ nrn.anno["syn_in"].anchored
  /\ Len(nrn.anno["syn_in"].data) = 1
  /\ nrn.anno["soma_pt"].registered
  /\ ~nrn.anno["soma_pt"].anchored
  /\ Len(nrn.anno["soma_pt"].data) = 1
  /\ NumVertices(nrn.mesh) = 1

\* the anchor-mesh vertices a mask over the current view selects
MaskedVertices(obj, mask) == {obj.mesh.unmasked[i] : i \in {j \in DOMAIN mask : mask[j]}}

\* C6: a successful filter_query returns exactly the rows visible under the
\* mask it was given and changes nothing: not the object (its mask, its
\* registry, its tables), not the loaded object, not the file
C6_FilterQueryOnlyReturns ==
  [][\A name \in Names, mask \in MaskInputs :
       (FilterQuery(name, mask) /\ status' = "ok") =>
         /\ ret'.data = RowsVisibleUnder(nrn.anno[name], MaskedVertices(nrn, mask))
         /\ nrn' = nrn
         /\ nrn2' = nrn2
         /\ file' = file]_vars

\* a query that returned one of the three rows syn_in shows
C6_Witness ==
  /\ op = "filter_query"
  /\ status = "ok"
  /\ ret.name = "syn_in"
  /\ ret.anchored
  /\ Len(ret.data) = 1
  /\ Len(nrn.anno["syn_in"].data) = 3

C8_FullMaskIsIdentity ==
  [][(IsUnmasked(nrn) /\ ApplyMask(AllTrue(NumVertices(nrn.mesh)))) =>
       /\ status' = "ok"
       /\ VisibleVertices(nrn') = VisibleVertices(nrn)
       /\ nrn'.mesh.vertices = nrn.mesh.vertices
       /\ VisibleEdges(nrn') = VisibleEdges(nrn)
       /\ \A nm \in Names : nrn'.anno[nm].data = nrn.anno[nm].data]_vars

\* a successful apply_mask that left the whole anchor mesh visible
C8_Witness ==
  /\ op = "apply_mask"
  /\ status = "ok"
  /\ IsUnmasked(nrn)
  /\ nrn.anchor.edges # {}
  /\ nrn.anno["syn_in"].anchored
  /\ Len(nrn.anno["syn_in"].data) = 3

IsRootedTree(sk) ==
  LET S     == 1..Len(sk.vertices)
      Roots == {s \in S : sk.parent[s] = 0}
  IN  /\ Len(sk.parent) = Len(sk.vertices)
      /\ \A s \in S : sk.parent[s] \in S \cup {0}
      /\ Cardinality(Roots) = 1
      /\ \A s \in S : s \notin Ancestors(sk, s)
      /\ \A s \in S \ Roots : Roots \subseteq Ancestors(sk, s)

\* C9: a skeleton is a single rooted tree: one vertex without a parent, no
\* vertex its own ancestor, every other vertex below the root
C9_SkeletonIsRootedTree ==
  nrn.skeleton.built => IsRootedTree(nrn.skeleton)

\* a skeleton with a branch point whose root stands for several soma vertices
C9_Witness ==
  /\ nrn.skeleton.built
  /\ Cardinality(nrn.skeleton.regions[1]) > 1
  /\ \E s \in 1..Len(nrn.skeleton.vertices) :
       Cardinality(Children(nrn.skeleton, s)) > 1

\* C10: every vertex of the current view that maps to a skeleton vertex is
\* in the mesh region of that skeleton vertex
C10_MeshIndexInOwnRegion ==
  nrn.skeleton.built =>
    \A i \in 1..NumVertices(nrn.mesh) :
      to_skel_index_padded(nrn, i) # Unmapped
        => i \in to_mesh_region(nrn, to_skel_index_padded(nrn, i))

\* a masked view whose indices differ from the anchor's, with two visible
\* vertices in one region
C10_Witness ==
  /\ nrn.skeleton.built
  /\ op = "apply_mask"
  /\ NumVertices(nrn.mesh) < NumVertices(nrn.anchor)
  /\ \E i \in 1..NumVertices(nrn.mesh) :
       /\ nrn.mesh.unmasked[i] # i
       /\ to_skel_index_padded(nrn, i) # Unmapped
       /\ Cardinality(to_mesh_region(nrn, to_skel_index_padded(nrn, i))) > 1

\* C11: along a skeleton, the distance from any mesh index of the view to
\* itself is 0 and the distance from a to b equals the distance from b to a;
\* a matrix returned for the same indices on both sides has zeros on its
\* diagonal and equals its transpose
C11_DistanceZeroAndSymmetric ==
  nrn.skeleton.built =>
    /\ \A a \in 1..NumVertices(nrn.mesh) :
         distance_between(nrn, <<a>>, <<a>>)[1][1] = 0
    /\ \A a \in 1..NumVertices(nrn.mesh), b \in 1..NumVertices(nrn.mesh) :
         distance_between(nrn, <<a>>, <<b>>)[1][1]
           = distance_between(nrn, <<b>>, <<a>>)[1][1]
    /\ (op = "distance_between" /\ status = "ok" /\ ret.a_inds = ret.b_inds) =>
         \A i \in DOMAIN ret.value :
           /\ ret.value[i][i] = 0
           /\ \A j \in DOMAIN ret.value : ret.value[i][j] = ret.value[j][i]

\* a matrix over a masked view with two indices on different branches: the
\* path between them goes up to a common ancestor that is neither, and down
C11_Witness ==
  /\ op = "distance_between"
  /\ status = "ok"
  /\ ret.a_inds = ViewIndices(nrn)
  /\ ret.b_inds = ViewIndices(nrn)
  /\ NumVertices(nrn.mesh) < NumVertices(nrn.anchor)
  /\ \E i \in DOMAIN ret.value, j \in DOMAIN ret.value :
       LET s == to_skel_index_padded(nrn, i)
           t == to_skel_index_padded(nrn, j)
       IN  /\ ret.value[i][j] > 0
           /\ LowestCommonAncestor(nrn.skeleton, s, t) \notin {s, t}

C13_MasksIntersect ==
  [][/\ \A mask \in MaskInputs :
          (ApplyMask(mask) /\ status' = "ok") =>
            /\ VisibleVertices(nrn')
                 = VisibleVertices(nrn) \cap MaskedVertices(nrn, mask)
            /\ nrn'.mesh_mask
                 = [i \in 1..NumVertices(nrn.anchor) |->
                      nrn.mesh_mask[i] /\ i \in MaskedVertices(nrn, mask)]
     /\ op' # "reset_mask" => VisibleVertices(nrn') \subseteq VisibleVertices(nrn)
    ]_vars

\* a masked view of scattered vertices: at least two vertices of the anchor
\* mesh are hidden and the indices of the view are not those of the anchor
C13_Witness ==
  /\ op = "apply_mask"
  /\ status = "ok"
  /\ NumVertices(nrn.mesh) > 0
  /\ NumVertices(nrn.mesh) + 2 <= NumVertices(nrn.anchor)
  /\ \E i \in 1..NumVertices(nrn.mesh) : nrn.mesh.unmasked[i] # i
  /\ nrn.anno["syn_in"].anchored
  /\ Len(nrn.anno["syn_in"].data) < Len(nrn.anno["syn_in"].data_original)

\* C14: a successful attach of an anchored table gives every row the index
\* of the nearest vertex of the anchor mesh, whatever mask is in force:
\* resetting the mask afterwards leaves the object that resetting first and
\* attaching the same table unmasked would have left, with the same rows
\* shown under the same mesh indices
C14_AttachAnchorsToAnchorMesh ==
  [][\A inp \in AttachInputs :
       (/\ inp[3]
        /\ AddAnnotations(inp[1], FrameOf(inp[1]), inp[2], inp[3])
        /\ status' = "ok") =>
         LET name     == inp[1]
             unmasked == add_annotations(reset_mask(nrn), name, FrameOf(name),
                                         inp[2], TRUE).obj
             stored   == nrn'.anno[name].data_original
         IN  /\ Len(stored) = Len(FrameOf(name).rows)
             /\ \A k \in DOMAIN stored :
                  stored[k].mesh_index = NearestVertex(nrn.anchor, stored[k].pt)
             /\ reset_mask(nrn').anno[name].data = unmasked.anno[name].data
             /\ reset_mask(nrn') = unmasked]_vars

\* syn_in attached anchored while a mask was in force, with a row whose
\* nearest vertex of the anchor mesh is out of view
C14_Witness ==
  /\ op = "add_annotations"
  /\ status = "ok"
  /\ ~nrn.anno["soma_pt"].registered
  /\ nrn.anno["syn_in"].registered
  /\ nrn.anno["syn_in"].anchored
  /\ NumVertices(nrn.mesh) > 0
  /\ NumVertices(nrn.mesh) < NumVertices(nrn.anchor)
  /\ \E k \in DOMAIN nrn.anno["syn_in"].data_original :
       nrn.anno["syn_in"].data_original[k].mesh_index \notin VisibleVertices(nrn)

====
